---------------------------- MODULE Spec2Model ----------------------------
(***************************************************************************)
(* A model of the SQL Server MCP server (src/sql_server_mcp/server.py):    *)
(* the tool invocation handler, the lazily created engine handle, the nine *)
(* operations and the text rewrite that caps read queries.                 *)
(*                                                                         *)
(* Python strings that the code inspects or rewrites are sequences of      *)
(* one-character strings.  An optional value is <<>> (None) or <<v>>.      *)
(* Coroutines of the server never suspend between their first and last     *)
(* statement (connect and the operations make blocking calls only), so     *)
(* one invocation is one atomic action.                                    *)
(***************************************************************************)
EXTENDS Integers, Sequences, FiniteSets, TLC

(***************************************************************************)
(* Bounds of the model.                                                    *)
(***************************************************************************)
MaxRows == 2          \* rows stored in the database
MaxEngines == 2       \* engines constructed over one run
MaxTasks == 2         \* invocations started together before any of them runs

(***************************************************************************)
(* Python str primitives, as the code uses them.                           *)
(***************************************************************************)
LowerAlpha == <<"a","b","c","d","e","f","g","h","i","j","k","l","m",
                "n","o","p","q","r","s","t","u","v","w","x","y","z">>
UpperAlpha == <<"A","B","C","D","E","F","G","H","I","J","K","L","M",
                "N","O","P","Q","R","S","T","U","V","W","X","Y","Z">>

UpperChar(c) ==
    IF \E i \in 1..26 : LowerAlpha[i] = c
    THEN UpperAlpha[CHOOSE i \in 1..26 : LowerAlpha[i] = c]
    ELSE c

\* str.upper()
Upper(s) == [i \in 1..Len(s) |-> UpperChar(s[i])]

\* str.startswith(p)
StartsWith(s, p) == Len(p) <= Len(s) /\ SubSeq(s, 1, Len(p)) = p

\* str.find(p) + 1: the position of the first occurrence of p, 0 if none
Least(hits) == IF hits = {} THEN 0 ELSE CHOOSE i \in hits : \A j \in hits : i <= j

Find(s, p) == Least({i \in 1..(Len(s) - Len(p) + 1) : SubSeq(s, i, i + Len(p) - 1) = p})

\* the Python test  p in s
Contains(s, p) == Find(s, p) /= 0

\* str.strip() of blanks
RECURSIVE LStrip(_)
LStrip(s) == IF s /= <<>> /\ Head(s) = " " THEN LStrip(Tail(s)) ELSE s

RECURSIVE RStrip(_)
RStrip(s) ==
    IF s /= <<>> /\ s[Len(s)] = " " THEN RStrip(SubSeq(s, 1, Len(s) - 1)) ELSE s

Strip(s) == RStrip(LStrip(s))

\* str.replace(old, new, 1): case-sensitive, first occurrence only
ReplaceAt(s, i, old, new) ==
    IF i = 0 THEN s
    ELSE SubSeq(s, 1, i - 1) \o new \o SubSeq(s, i + Len(old), Len(s))

ReplaceFirst(s, old, new) == ReplaceAt(s, Find(s, old), old, new)

\* str(n) of an integer, as an f-string renders it
Digits == <<"0","1","2","3","4","5","6","7","8","9">>

RECURSIVE StrOfNat(_)
StrOfNat(n) ==
    IF n < 10 THEN <<Digits[n + 1]>>
    ELSE StrOfNat(n \div 10) \o <<Digits[(n % 10) + 1]>>

IsDigit(c) == \E d \in 1..10 : Digits[d] = c

DigitVal(c) == (CHOOSE d \in 1..10 : Digits[d] = c) - 1

RECURSIVE NatOfStr(_)
NatOfStr(s) ==
    IF s = <<>> THEN 0
    ELSE 10 * NatOfStr(SubSeq(s, 1, Len(s) - 1)) + DigitVal(s[Len(s)])

IsNumeral(s) == s /= <<>> /\ \A i \in 1..Len(s) : IsDigit(s[i])

(***************************************************************************)
(* Optional values: None is <<>>, a given value v is <<v>>.                *)
(***************************************************************************)
None == <<>>
Some(v) == <<v>>

\* Python truthiness of an optional string
TruthyStr(o) == o /= None /\ o[1] /= <<>>

(***************************************************************************)
(* Keywords and table names as character sequences.                        *)
(***************************************************************************)
kwSELECT == <<"S","E","L","E","C","T">>
kwTOP == <<"T","O","P">>
kwOFFSET == <<"O","F","F","S","E","T">>
kwFROM == <<"F","R","O","M">>
kwDELETE == <<"D","E","L","E","T","E">>
kwORDER == <<"O","R","D","E","R">>
kwBY == <<"B","Y">>
kwROWS == <<"R","O","W","S">>
kwGETDATE == <<"G","E","T","D","A","T","E","(",")">>
Star == <<"*">>
Blank == <<" ">>

Orders == <<"O","r","d","e","r","s">>
Ghost == <<"G","h","o","s","t">>

(***************************************************************************)
(* execute_query's limit injection (server.py 324-327).                    *)
(***************************************************************************)
\* the guard of line 325 and line 326
NoTopCheck(query, limit) ==
    /\ limit /= 0
    /\ ~Contains(Upper(query), kwOFFSET)
    /\ StartsWith(Upper(Strip(query)), kwSELECT)

NeedsLimit(query, limit) ==
    /\ limit /= 0
    /\ ~Contains(Upper(query), kwTOP)
    /\ ~Contains(Upper(query), kwOFFSET)
    /\ StartsWith(Upper(Strip(query)), kwSELECT)

\* the statement execute_query hands to the database
LimitRewrite(query, limit) ==
    IF NeedsLimit(query, limit)
    THEN ReplaceFirst(query, kwSELECT, kwSELECT \o Blank \o kwTOP \o Blank \o StrOfNat(limit))
    ELSE query


(***************************************************************************)
(* The Python objects the driver hands back for the cells of a row, and    *)
(* their conversions.  A Decimal carries its digits, a datetime its date   *)
(* and its time of day.                                                    *)
(***************************************************************************)
PyInt(n) == [py |-> "int", value |-> n]
PyStr(s) == [py |-> "str", value |-> s]
PyFloat(repr) == [py |-> "float", value |-> repr]
PyDecimal(digits) == [py |-> "Decimal", value |-> digits]
PyDatetime(d, t) == [py |-> "datetime", value |-> [date |-> d, time |-> t]]

PyInts(rows) == [i \in 1..Len(rows) |-> PyInt(rows[i])]

\* datetime.isoformat() and str(datetime)
IsoFormat(o) == o.value.date \o <<"T">> \o o.value.time

StrOfDatetime(o) == o.value.date \o Blank \o o.value.time

\* str(obj)
str(o) ==
    PyStr(CASE o.py = "int" -> StrOfNat(o.value)
            [] o.py = "datetime" -> StrOfDatetime(o)
            [] OTHER -> o.value)

\* repr(float(d)) of a Decimal d with digits after its point: the zeros
\* that end it are dropped, one digit stays after the point
RECURSIVE FloatRepr(_)
FloatRepr(digits) ==
    IF digits[Len(digits)] = "0" /\ digits[Len(digits) - 1] /= "."
    THEN FloatRepr(SubSeq(digits, 1, Len(digits) - 1))
    ELSE digits

\* json_serializer (server.py 307-315)
json_serializer(o) ==
    IF o.py \in {"datetime", "date"} THEN PyStr(IsoFormat(o))
    ELSE IF o.py = "Decimal" THEN PyFloat(FloatRepr(o.value))
    ELSE str(o)

(***************************************************************************)
(* The database the engine talks to: tables is a function from the names   *)
(* of the existing tables to their rows, in storage order.  Every table    *)
(* has the one column "id"; a row is the value of that column.             *)
(***************************************************************************)
Rows == {1, 2}
Columns == <<"id">>

RECURSIVE SeqsUpTo(_)
SeqsUpTo(n) ==
    IF n = 0 THEN {<<>>}
    ELSE LET shorter == SeqsUpTo(n - 1)
         IN  shorter \cup {Append(s, r) : s \in {t \in shorter : Len(t) = n - 1}, r \in Rows}

\* the blank-separated words of a statement
RECURSIVE Split(_)
SplitAt(t, n) ==
    IF t = <<>> THEN <<>>
    ELSE IF n = 0 THEN <<t>>
    ELSE <<SubSeq(t, 1, n - 1)>> \o Split(SubSeq(t, n + 1, Len(t)))

SplitWords(t) == SplitAt(t, Find(t, Blank))

Split(s) == SplitWords(LStrip(s))

\* [name] and name denote the same table
Unbracket(w) ==
    IF Len(w) >= 2 /\ w[1] = "[" /\ w[Len(w)] = "]" THEN SubSeq(w, 2, Len(w) - 1) ELSE w

\* the existing tables a word of a statement names (identifiers are
\* case-insensitive under the server's default collation)
Named(w, tabs) == {n \in DOMAIN tabs : Upper(n) = Upper(Unbracket(w))}

TableOf(w, tabs) == CHOOSE n \in Named(w, tabs) : TRUE

Take(rows, n) == SubSeq(rows, 1, IF n < Len(rows) THEN n ELSE Len(rows))

Drop(rows, n) == IF n >= Len(rows) THEN <<>> ELSE SubSeq(rows, n + 1, Len(rows))

\* ORDER BY 1: the rows in ascending order of the column
RECURSIVE SortAsc(_)
MoveFirst(rows, i) ==
    <<rows[i]>> \o SortAsc(SubSeq(rows, 1, i - 1) \o SubSeq(rows, i + 1, Len(rows)))

SortAsc(rows) ==
    IF rows = <<>> THEN <<>>
    ELSE MoveFirst(rows, CHOOSE k \in 1..Len(rows) : \A j \in 1..Len(rows) : rows[k] <= rows[j])

\* the server's clock, as the driver returns a DATETIME
Now == PyDatetime(<<"2","0","2","6","-","0","1","-","0","1">>,
                  <<"1","2",":","0","0",":","0","0">>)

SqlError == [ok |-> FALSE, returns_rows |-> FALSE, rows |-> <<>>, rowcount |-> -1]

RowsResult(rows) == [ok |-> TRUE, returns_rows |-> TRUE, rows |-> rows, rowcount |-> -1]

CountResult(n) == [ok |-> TRUE, returns_rows |-> FALSE, rows |-> <<>>, rowcount |-> n]

\* What the database answers to one statement.  The statements it
\* understands are
\*     SELECT <n>
\*     SELECT [TOP <n>] GETDATE()
\*     SELECT [TOP <n>] * FROM <table> [ORDER BY 1 OFFSET <k> ROWS]
\*     DELETE FROM <table>
\* with keywords in any letter case; everything else is a syntax error.
Answer(w, u, n, tabs) ==
    IF n = 2 /\ u[1] = kwSELECT /\ IsNumeral(w[2])
    THEN RowsResult(<<PyInt(NatOfStr(w[2]))>>)
    ELSE IF n = 2 /\ u[1] = kwSELECT /\ u[2] = kwGETDATE
    THEN RowsResult(<<Now>>)
    ELSE IF n = 4 /\ u[1] = kwSELECT /\ u[2] = kwTOP /\ IsNumeral(w[3])
            /\ u[4] = kwGETDATE
    THEN RowsResult(Take(<<Now>>, NatOfStr(w[3])))
    ELSE IF n = 4 /\ u[1] = kwSELECT /\ w[2] = Star /\ u[3] = kwFROM
            /\ Named(w[4], tabs) /= {}
    THEN RowsResult(PyInts(tabs[TableOf(w[4], tabs)]))
    ELSE IF n = 6 /\ u[1] = kwSELECT /\ u[2] = kwTOP /\ IsNumeral(w[3])
            /\ w[4] = Star /\ u[5] = kwFROM /\ Named(w[6], tabs) /= {}
    THEN RowsResult(PyInts(Take(tabs[TableOf(w[6], tabs)], NatOfStr(w[3]))))
    ELSE IF n = 10 /\ u[1] = kwSELECT /\ w[2] = Star /\ u[3] = kwFROM
            /\ Named(w[4], tabs) /= {} /\ u[5] = kwORDER /\ u[6] = kwBY
            /\ IsNumeral(w[7]) /\ u[8] = kwOFFSET /\ IsNumeral(w[9])
            /\ u[10] = kwROWS
    THEN RowsResult(PyInts(Drop(SortAsc(tabs[TableOf(w[4], tabs)]), NatOfStr(w[9]))))
    ELSE IF n = 3 /\ u[1] = kwDELETE /\ u[2] = kwFROM /\ Named(w[3], tabs) /= {}
    THEN CountResult(Len(tabs[TableOf(w[3], tabs)]))
    ELSE SqlError

UpperWords(w) == [i \in 1..Len(w) |-> Upper(w[i])]

AnswerWords(w, tabs) == Answer(w, UpperWords(w), Len(w), tabs)

Execute(stmt, tabs) == AnswerWords(Split(stmt), tabs)

(***************************************************************************)
(* The state of one server process.                                        *)
(*   proc     where the process is: "starting" (main before connect),      *)
(*            "serving" (main, after connect), "exited", or "direct" (an   *)
(*            SQLServerMCP object used without main, as test_setup.py and  *)
(*            the unit tests do)                                           *)
(*   engine   self.engine: id 0 is None; probed tells whether the probe    *)
(*            statement of the connect that made it succeeded              *)
(*   created  the number of engines constructed so far                     *)
(*   tables   the database                                                 *)
(*   last     the call whose response is on its way to the caller: its     *)
(*            inputs, what it ran (stmts, executed, made: the engines it   *)
(*            constructed) and what it returned; Idle between calls        *)
(*   showplan the SHOWPLAN_ALL setting of the session the engine's pool    *)
(*            keeps open and hands to the next engine.connect()            *)
(*   held     the connections checked out of the pool and not returned     *)
(*   racing   the invocations that were started together while no handle   *)
(*            existed and have not run yet.  The event loop runs them one  *)
(*            after the other, in any order: no coroutine of the server    *)
(*            suspends between its first and its last statement.           *)
(***************************************************************************)
VARIABLES proc, engine, created, tables, last, showplan, held, racing
vars == <<proc, engine, created, tables, last, showplan, held, racing>>

NoEngine == [id |-> 0, probed |-> FALSE]

\* What can go wrong outside the statement's own text: create_engine
\* rejects the configuration, the probe cannot reach the server, a session
\* cannot be opened on the engine, the server drops a statement.
Faults == {"none", "create_engine", "probe", "acquire", "execute"}

DriverError(what) == [fmt |-> what, arg |-> <<>>]

(***************************************************************************)
(* with self.engine.connect() as conn: the number of connections the exit  *)
(* of the block returns to the pool, for a block left by a return (or by   *)
(* running off its end) and for a block left by an exception.              *)
(***************************************************************************)
CloseOnReturnOnly(how) == IF how = "return" THEN 1 ELSE 0

Close(how) == 1

\* an outcome whose block held one connection and was left the way how
Left(how, out) == [out EXCEPT !.held = @ + 1 - Close(how)]

(***************************************************************************)
(* connect (server.py 274-305).  The outcome carries the new handle, the   *)
(* statements run and whether the exception was re-raised.                 *)
(***************************************************************************)
Swallowed(eng, made, fault) ==
    IF fault = "create_engine"
    THEN [raised |-> FALSE, err |-> DriverError(""),
          engine |-> eng, created |-> made, stmts |-> <<>>, held |-> 0]
    ELSE [raised |-> FALSE, err |-> DriverError(""),
          engine |-> [id |-> made + 1, probed |-> fault /= "probe"], created |-> made + 1,
          stmts |-> <<"probe">>, held |-> 0]

connect(eng, made, fault) ==
    IF fault = "create_engine"
    THEN [raised |-> TRUE, err |-> DriverError("create_engine failed"),
          engine |-> eng, created |-> made, stmts |-> <<>>, held |-> 0]
    ELSE IF fault = "probe"
    THEN Left("error", [raised |-> TRUE, err |-> DriverError("probe failed"),
                        engine |-> [id |-> made + 1, probed |-> FALSE],
                        created |-> made + 1, stmts |-> <<"probe">>, held |-> 0])
    ELSE Left("return", [raised |-> FALSE, err |-> DriverError(""),
                         engine |-> [id |-> made + 1, probed |-> TRUE],
                         created |-> made + 1, stmts |-> <<"probe">>, held |-> 0])

\* the test  not self.engine  that opens every operation
AlwaysConnect(eng) == TRUE

NotConnected(eng) == eng.id = 0

\* if not self.engine: await self.connect()
EnsureConnected(eng, made, fault) ==
    IF NotConnected(eng)
    THEN connect(eng, made, fault)
    ELSE [raised |-> FALSE, err |-> DriverError(""), engine |-> eng,
          created |-> made, stmts |-> <<>>, held |-> 0]

(***************************************************************************)
(* Outcomes of an operation: it raised err to its caller, or returned the  *)
(* map result.  Either way it leaves a handle, a database and the list of  *)
(* the statements it ran.                                                  *)
(***************************************************************************)
Raised(c, e) ==
    [raised |-> TRUE, err |-> e, result |-> [none |-> TRUE], engine |-> c.engine,
     created |-> c.created, tables |-> tables, stmts |-> c.stmts, executed |-> None,
     held |-> c.held]

Returned(c, r, tabs, stmts, executed) ==
    [raised |-> FALSE, err |-> DriverError(""), result |-> r, engine |-> c.engine,
     created |-> c.created, tables |-> tabs, stmts |-> c.stmts \o stmts,
     executed |-> executed, held |-> c.held]

\* dict(zip(columns, row)) for each row
RowMappings(rows) == [i \in 1..Len(rows) |-> [id |-> rows[i]]]

(***************************************************************************)
(* execute_query (server.py 317-359).  The session is closed without a     *)
(* commit, so a write statement is rolled back when the call returns.      *)
(***************************************************************************)
\* the except clause of lines 354-359
Reraise(c, e, query, stmts, executed) == Raised(c, e)

QueryFailed(c, e, query, stmts, executed) ==
    Returned(c, [success |-> FALSE, error |-> e, query |-> query], tables, stmts, executed)

QueryResult(c, q, r) ==
    IF ~r.ok
    THEN Left("error", QueryFailed(c, DriverError("sql error"), q, <<"query">>, Some(q)))
    ELSE IF r.returns_rows
    THEN Left("return",
              Returned(c, [success |-> TRUE, row_count |-> Len(RowMappings(r.rows)),
                           columns |-> Columns, data |-> RowMappings(r.rows), query |-> q],
                       tables, <<"query">>, Some(q)))
    ELSE Left("return",
              Returned(c, [success |-> TRUE,
                           message |-> [fmt |-> "Query executed successfully. Rows affected: {}",
                                        arg |-> r.rowcount],
                           query |-> q],
                       tables, <<"query">>, Some(q)))

RunQuery(c, query, q, fault) ==
    IF c.raised THEN Raised(c, c.err)
    ELSE IF fault = "acquire"
    THEN QueryFailed(c, DriverError("cannot open session"), query, <<>>, None)
    ELSE IF fault = "execute"
    THEN Left("error", QueryFailed(c, DriverError("statement failed"), q, <<"query">>,
                                   Some(q)))
    ELSE QueryResult(c, q, Execute(q, tables))

execute_query(query, limit, fault) ==
    RunQuery(EnsureConnected(engine, created, fault), query, LimitRewrite(query, limit), fault)

(***************************************************************************)
(* get_schema (server.py 361-433).                                         *)
(***************************************************************************)
ColumnInfo == <<[name |-> "id", type |-> "INTEGER", nullable |-> FALSE, default |-> None]>>

ColumnBrief == <<[name |-> "id", type |-> "INTEGER", nullable |-> FALSE]>>

IndexInfo == <<[name |-> "PK_id", columns |-> <<"id">>, unique |-> TRUE]>>

\* the message of line 372
MissingTable(name) == [fmt |-> "Table '{}' not found", arg |-> name]

TableInfo(name, include_columns, include_indexes) ==
    IF include_indexes
    THEN [table_name |-> name,
          columns |-> IF include_columns THEN ColumnInfo ELSE <<>>,
          primary_keys |-> <<"id">>, foreign_keys |-> <<>>, indexes |-> IndexInfo]
    ELSE [table_name |-> name,
          columns |-> IF include_columns THEN ColumnInfo ELSE <<>>,
          primary_keys |-> <<"id">>, foreign_keys |-> <<>>]

Catalog(tabs, include_columns) ==
    [database |-> "EM_Data", table_count |-> Cardinality(DOMAIN tabs),
     tables |-> IF include_columns
                THEN {[table_name |-> n, columns |-> ColumnBrief] : n \in DOMAIN tabs}
                ELSE {[table_name |-> n] : n \in DOMAIN tabs}]

\* the body of get_schema's try block, on a handle that exists
SchemaOf(table_name, include_columns, include_indexes, fault) ==
    IF fault \in {"acquire", "execute"}
    THEN [error |-> DriverError("introspection failed")]
    ELSE IF TruthyStr(table_name)
    THEN IF table_name[1] \notin DOMAIN tables
         THEN [error |-> MissingTable(table_name[1])]
         ELSE TableInfo(table_name[1], include_columns, include_indexes)
    ELSE Catalog(tables, include_columns)

get_schema(table_name, include_columns, include_indexes, fault) ==
    LET c == EnsureConnected(engine, created, fault)
    IN  IF c.raised THEN Raised(c, c.err)
        ELSE Returned(c, SchemaOf(table_name, include_columns, include_indexes, fault),
                      tables, <<"inspect">>, None)

(***************************************************************************)
(* get_table_info (server.py 435-467).  A fault "acquire" stops the        *)
(* introspection, a fault "execute" the row-count statement.               *)
(***************************************************************************)
\* the test of line 444
NeverMissing(schema_info) == FALSE

HasError(schema_info) == "error" \in DOMAIN schema_info

TableDetails(c, schema_info, table_name, sample_rows, fault) ==
    IF c.raised THEN Raised(c, c.err)
    ELSE IF HasError(schema_info)
    THEN Returned(c, schema_info, tables, <<"inspect">>, None)
    ELSE IF fault = "execute" \/ table_name \notin DOMAIN tables
    THEN Left("error", Returned(c, [error |-> DriverError("sql error")], tables,
                                <<"inspect", "count">>, None))
    ELSE Left("return",
              Returned(c, schema_info @@
                          [row_count |-> Len(tables[table_name]),
                           sample_data |-> RowMappings(PyInts(Take(tables[table_name],
                                                                   sample_rows)))],
                       tables, <<"inspect", "count", "sample">>, None))

get_table_info(table_name, sample_rows, fault) ==
    TableDetails(EnsureConnected(engine, created, fault),
                 SchemaOf(Some(table_name), TRUE, TRUE,
                          IF fault = "execute" THEN "none" ELSE fault),
                 table_name, sample_rows, fault)

(***************************************************************************)
(* explain_query (server.py 469-489).  Under SHOWPLAN_ALL the statement    *)
(* is compiled, not run: a well-formed statement yields its plan row.      *)
(***************************************************************************)
explain_query(query, fault) ==
    LET c == EnsureConnected(engine, created, fault)
        r == Execute(query, tables)
    IN  IF c.raised THEN Raised(c, c.err)
        ELSE IF fault = "acquire"
        THEN Returned(c, [error |-> DriverError("cannot open session")], tables, <<>>, None)
        ELSE IF fault = "execute" \/ ~r.ok
        THEN Left("error", Returned(c, [error |-> DriverError("sql error")], tables,
                                    <<"showplan_on", "query">>, Some(query)))
        ELSE Left("return",
                  Returned(c, [query |-> query,
                               execution_plan |-> <<[StmtText |-> PyStr(query)]>>],
                           tables, <<"showplan_on", "query", "showplan_off">>, Some(query)))

(***************************************************************************)
(* check_connection (server.py 491-512): the connect is inside the try.    *)
(***************************************************************************)
check_connection(fault) ==
    LET c == EnsureConnected(engine, created, fault)
    IN  IF c.raised
        THEN Returned(c, [connected |-> FALSE, error |-> c.err], tables, <<>>, None)
        ELSE IF fault = "acquire"
        THEN Returned(c, [connected |-> FALSE, error |-> DriverError("statement failed")],
                      tables, <<>>, None)
        ELSE IF fault = "execute"
        THEN Left("error",
                  Returned(c, [connected |-> FALSE, error |-> DriverError("statement failed")],
                           tables, <<"version">>, None))
        ELSE Left("return",
                  Returned(c, [connected |-> TRUE, server_version |-> "Microsoft SQL Server",
                               server_name |-> "SERVER01", database_name |-> "EM_Data"],
                           tables, <<"version">>, None))

(***************************************************************************)
(* get_table_stats (server.py 514-565).                                    *)
(***************************************************************************)
\* the columns CAST ... AS NUMERIC(36, 2) come back as Decimal
StatsOf(n) ==
    [table_name |-> PyStr(n), row_count |-> PyInt(Len(tables[n])),
     total_space_mb |-> PyDecimal(<<"0",".","1","0">>),
     used_space_mb |-> PyDecimal(<<"0",".","0","7">>),
     unused_space_mb |-> PyDecimal(<<"0",".","0","3">>)]

get_table_stats(table_name, fault) ==
    LET c == EnsureConnected(engine, created, fault)
        scope == IF TruthyStr(table_name)
                 THEN {n \in DOMAIN tables : Upper(n) = Upper(table_name[1])}
                 ELSE DOMAIN tables
    IN  IF c.raised THEN Raised(c, c.err)
        ELSE IF fault = "acquire"
        THEN Returned(c, [error |-> DriverError("statement failed")], tables, <<>>, None)
        ELSE IF fault = "execute"
        THEN Left("error", Returned(c, [error |-> DriverError("statement failed")], tables,
                                    <<"stats">>, None))
        ELSE Left("return",
                  Returned(c, [success |-> TRUE, statistics |-> {StatsOf(n) : n \in scope}],
                           tables, <<"stats">>, None))

(***************************************************************************)
(* search_tables (server.py 567-616): LIKE '%term%' on table names and on  *)
(* column names.                                                           *)
(***************************************************************************)
ColumnChars == <<"i", "d">>

Like(name, term) == Contains(Upper(name), Upper(term))

search_tables(search_term, search_type, fault) ==
    LET c == EnsureConnected(engine, created, fault)
        byTable == search_type \in {"table", "both"}
        byColumn == search_type \in {"column", "both"}
        found == [tables |-> IF byTable
                             THEN {[table_name |-> n, schema |-> "dbo"] :
                                      n \in {m \in DOMAIN tables : Like(m, search_term)}}
                             ELSE {},
                  columns |-> IF byColumn /\ Like(ColumnChars, search_term)
                              THEN {[table_name |-> n, column_name |-> "id",
                                     data_type |-> "int", is_nullable |-> "NO"] :
                                       n \in DOMAIN tables}
                              ELSE {}]
    IN  IF c.raised THEN Raised(c, c.err)
        ELSE IF fault = "acquire"
        THEN Returned(c, [error |-> DriverError("statement failed")], tables, <<>>, None)
        ELSE IF fault = "execute"
        THEN Left("error", Returned(c, [error |-> DriverError("statement failed")], tables,
                                    <<"search">>, None))
        ELSE Left("return",
                  Returned(c, [success |-> TRUE, search_term |-> search_term,
                               results |-> found],
                           tables,
                           (IF byTable THEN <<"search">> ELSE <<>>)
                               \o (IF byColumn THEN <<"search">> ELSE <<>>),
                           None))


(***************************************************************************)
(* backup_table (server.py 618-646).  SELECT ... INTO fails when the       *)
(* source is missing or the target exists.                                 *)
(***************************************************************************)
BackupInfix == <<"_","b","a","c","k","u","p","_">>

\* datetime.now().strftime("%Y%m%d_%H%M%S")
Stamps == {<<"2","0","2","6","0","1","0","1","_","1","2","0","0","0","0">>}

backup_table(table_name, backup_name, stamp, fault) ==
    LET c == EnsureConnected(engine, created, fault)
        target == IF TruthyStr(backup_name) THEN backup_name[1]
                  ELSE table_name \o BackupInfix \o stamp
    IN  IF c.raised THEN Raised(c, c.err)
        ELSE IF fault = "acquire"
        THEN Returned(c, [error |-> DriverError("cannot open session")], tables, <<>>, None)
        ELSE IF fault = "execute" \/ table_name \notin DOMAIN tables
                \/ target \in DOMAIN tables
        THEN Left("error", Returned(c, [error |-> DriverError("sql error")], tables,
                                    <<"select_into">>, None))
        ELSE Left("return",
                  Returned(c, [success |-> TRUE, original_table |-> table_name,
                               backup_table |-> target,
                               rows_copied |-> Len(tables[table_name])],
                           tables @@ (target :> tables[table_name]),
                           <<"select_into", "commit", "count">>, None))

(***************************************************************************)
(* insert_data (server.py 648-680).  DataFrame.to_sql with                 *)
(* if_exists="append" adds the rows to the table, creating it when it is   *)
(* missing; with if_exists="replace" it drops the table, creates it again  *)
(* and inserts the rows.  Both run in one transaction.                     *)
(***************************************************************************)
\* the message of line 655
NoData == [fmt |-> "No data provided", arg |-> <<>>]

\* line 661
AlwaysReplace(on_conflict) == "replace"

IfExists(on_conflict) == IF on_conflict = "ignore" THEN "append" ELSE "replace"

ToSql(tabs, table_name, data, if_exists) ==
    IF if_exists = "append" /\ table_name \in DOMAIN tabs
    THEN [tabs EXCEPT ![table_name] = @ \o data]
    ELSE (table_name :> data) @@ tabs

insert_data(table_name, data, on_conflict, fault) ==
    LET c == EnsureConnected(engine, created, fault)
    IN  IF c.raised THEN Raised(c, c.err)
        ELSE IF data = <<>>
        THEN Returned(c, [error |-> NoData], tables, <<>>, None)
        ELSE IF fault \in {"acquire", "execute"}
        THEN Returned(c, [error |-> DriverError("to_sql failed")], tables,
                      IF fault = "execute" THEN <<"to_sql">> ELSE <<>>, None)
        ELSE Returned(c, [success |-> TRUE, table_name |-> table_name,
                          rows_inserted |-> Len(data), conflict_handling |-> on_conflict],
                      ToSql(tables, table_name, data, IfExists(on_conflict)),
                      <<"to_sql">>, None)

(***************************************************************************)
(* handle_list_tools (server.py 41-214): the catalog the discovery call    *)
(* returns, each tool with its name and the arguments its schema requires. *)
(***************************************************************************)
Tool(name, required) == [name |-> name, required |-> required]

WithoutInsertData ==
    <<Tool("execute_query", {"query"}), Tool("get_schema", {}),
      Tool("get_table_info", {"table_name"}), Tool("explain_query", {"query"}),
      Tool("check_connection", {}), Tool("get_table_stats", {}),
      Tool("search_tables", {"search_term"}), Tool("backup_table", {"table_name"})>>

handle_list_tools ==
    <<Tool("execute_query", {"query"}), Tool("get_schema", {}),
      Tool("get_table_info", {"table_name"}), Tool("explain_query", {"query"}),
      Tool("check_connection", {}), Tool("get_table_stats", {}),
      Tool("search_tables", {"search_term"}), Tool("backup_table", {"table_name"}),
      Tool("insert_data", {"table_name", "data"})>>

(***************************************************************************)
(* handle_call_tool (server.py 216-272).  arguments is null or a map; the  *)
(* map is a function from the argument names given to their values.        *)
(***************************************************************************)
NullArguments == [null |-> TRUE, map |-> <<>>]

Given(m) == [null |-> FALSE, map |-> m]

ToolNames == {"execute_query", "get_schema", "get_table_info", "explain_query",
              "check_connection", "get_table_stats", "search_tables", "backup_table",
              "insert_data"}

KeyError(k) == [fmt |-> "'{}'", key |-> k]

\* the message of line 266
Unnamed(name) == [fmt |-> "Unknown tool", tool |-> ""]

UnknownTool(name) == [fmt |-> "Unknown tool: {}", tool |-> name]

Here == [engine |-> engine, created |-> created, stmts |-> <<>>, held |-> 0]

\* arguments.get(k, d) and arguments.get(k)
Get(args, k, d) == IF k \in DOMAIN args THEN args[k] ELSE d

GetOpt(args, k) == IF k \in DOMAIN args THEN Some(args[k]) ELSE None

\* the if/elif chain of lines 226-266
Dispatch(name, args, stamp, fault) ==
    CASE name = "execute_query" ->
               IF "query" \notin DOMAIN args THEN Raised(Here, KeyError("query"))
               ELSE execute_query(args.query, Get(args, "limit", 1000), fault)
          [] name = "get_schema" ->
               get_schema(GetOpt(args, "table_name"), Get(args, "include_columns", TRUE),
                          Get(args, "include_indexes", FALSE), fault)
          [] name = "get_table_info" ->
               IF "table_name" \notin DOMAIN args THEN Raised(Here, KeyError("table_name"))
               ELSE get_table_info(args.table_name, Get(args, "sample_rows", 5), fault)
          [] name = "explain_query" ->
               IF "query" \notin DOMAIN args THEN Raised(Here, KeyError("query"))
               ELSE explain_query(args.query, fault)
          [] name = "check_connection" -> check_connection(fault)
          [] name = "get_table_stats" -> get_table_stats(GetOpt(args, "table_name"), fault)
          [] name = "search_tables" ->
               IF "search_term" \notin DOMAIN args THEN Raised(Here, KeyError("search_term"))
               ELSE search_tables(args.search_term, Get(args, "search_type", "both"), fault)
          [] name = "backup_table" ->
               IF "table_name" \notin DOMAIN args THEN Raised(Here, KeyError("table_name"))
               ELSE backup_table(args.table_name, GetOpt(args, "backup_name"), stamp, fault)
          [] name = "insert_data" ->
               IF "table_name" \notin DOMAIN args THEN Raised(Here, KeyError("table_name"))
               ELSE IF "data" \notin DOMAIN args THEN Raised(Here, KeyError("data"))
               ELSE insert_data(args.table_name, args.data,
                                Get(args, "on_conflict", "ignore"), fault)
          [] OTHER -> Raised(Here, UnknownTool(name))

\* What json.dumps writes for one cell: an int, a float or a str as it is,
\* anything else as what the default hook makes of it.
JsonNumber(repr) == [json |-> "number", value |-> repr]

JsonString(chars) == [json |-> "string", value |-> chars]

Native(o) ==
    CASE o.py = "int" -> JsonNumber(StrOfNat(o.value))
      [] o.py = "float" -> JsonNumber(o.value)
      [] OTHER -> JsonString(o.value)

\* the hook passed as default=, by its name
Call(default, o) == IF default = "str" THEN str(o) ELSE json_serializer(o)

Encode(o, default) ==
    IF o.py \in {"int", "float", "str"} THEN Native(o) ELSE Native(Call(default, o))

EncodeRow(row, default) == [c \in DOMAIN row |-> Encode(row[c], default)]

\* the keys of the result maps under which rows of the driver travel
RowKeys == {"data", "sample_data", "execution_plan"}

Dumps(result, default) ==
    [json |-> [k \in DOMAIN result |->
                  IF k \in RowKeys
                  THEN [i \in 1..Len(result[k]) |-> EncodeRow(result[k][i], default)]
                  ELSE IF k = "statistics"
                  THEN {EncodeRow(row, default) : row \in result[k]}
                  ELSE result[k]]]

\* json.dumps(result, indent=2, default=str)
JsonDumps(result) == Dumps(result, "str")

\* lines 268-272: what the handler hands back for an outcome of the chain
Uncaught(out) == [propagated |-> out.raised,
                  content |-> IF out.raised THEN <<>>
                              ELSE <<[type |-> "text", text |-> JsonDumps(out.result)]>>]

Respond(out) ==
    [propagated |-> FALSE,
     content |-> IF out.raised
                 THEN <<[type |-> "text", text |-> [prefix |-> "Error: ", str |-> out.err]]>>
                 ELSE <<[type |-> "text", text |-> JsonDumps(out.result)]>>]

handle_call_tool(name, arguments, stamp, fault) ==
    LET args == IF arguments.null \/ DOMAIN arguments.map = {} THEN <<>> ELSE arguments.map
        out == Dispatch(name, args, stamp, fault)
    IN  [out |-> out, response |-> Respond(out)]


(***************************************************************************)
(* The inputs the model draws.                                             *)
(***************************************************************************)
SelectAll == <<"S","E","L","E","C","T"," ","*"," ","F","R","O","M"," ","O","r","d","e","r","s">>
SelectLower == <<"s","e","l","e","c","t"," ","*"," ","f","r","o","m"," ","O","r","d","e","r","s">>
SelectMixed == <<"S","e","l","e","c","t"," ","*"," ","F","r","o","m"," ","O","r","d","e","r","s">>
SelectPadded == <<" ","S","E","L","E","C","T"," ","*"," ","F","R","O","M"," ","O","r","d","e","r","s">>
SelectTop == <<"S","E","L","E","C","T"," ","T","O","P"," ","1"," ","*"," ","F","R","O","M"," ","O","r","d","e","r","s">>
SelectOffset == <<"S","E","L","E","C","T"," ","*"," ","F","R","O","M"," ","O","r","d","e","r","s"," ","O","R","D","E","R"," ","B","Y"," ","1"," ","O","F","F","S","E","T"," ","1"," ","R","O","W","S">>
SelectGhost == <<"S","E","L","E","C","T"," ","*"," ","F","R","O","M"," ","G","h","o","s","t">>
SelectNow == <<"S","E","L","E","C","T"," ","G","E","T","D","A","T","E","(",")">>
DeleteAll == <<"D","E","L","E","T","E"," ","F","R","O","M"," ","O","r","d","e","r","s">>

Queries == {SelectAll, SelectLower, SelectMixed, SelectPadded, SelectTop, SelectOffset,
            SelectGhost, SelectNow, DeleteAll}

Limits == {0, 1, 2}

TableArgs == {Orders, Ghost, <<>>}

DataArgs == {<<>>, <<1>>, <<2>>, <<2, 1>>}

ConflictArgs == {"ignore", "replace", "update"}

SearchTerms == {<<"o","r","d">>, <<"i">>, <<"z">>}

UnknownNames == {"drop_table", "Execute_Query", ""}

Idle == [call |-> "none", raced |-> FALSE, made |-> 0, tool |-> "", arguments |-> NullArguments, fault |-> "none",
         raised |-> FALSE, err |-> DriverError(""), result |-> [none |-> TRUE],
         response |-> [propagated |-> FALSE, content |-> <<>>],
         stmts |-> <<>>, executed |-> None]

Init ==
    /\ proc \in {"starting", "direct"}
    /\ engine = NoEngine
    /\ created = 0
    /\ tables \in {(Orders :> rows) : rows \in SeqsUpTo(MaxRows)}
    /\ last = Idle
    /\ showplan = FALSE
    /\ held = 0
    /\ racing = 0

\* the faults that can show in the current state: the first two occur
\* inside connect only
FaultsNow == IF engine.id = 0 THEN Faults ELSE {"none", "acquire", "execute"}

RECURSIVE TotalRows(_, _)
TotalRows(tabs, names) ==
    IF names = {} THEN 0
    ELSE LET n == CHOOSE x \in names : TRUE
         IN  Len(tabs[n]) + TotalRows(tabs, names \ {n})

\* The SHOWPLAN_ALL setting of a session after the statements stmts ran on
\* it: SET SHOWPLAN_ALL ON and OFF switch it, closing the connection (which
\* returns it to the pool) leaves it as it is.
RECURSIVE SessionAfter(_, _)
SessionAfter(on, stmts) ==
    IF stmts = <<>> THEN on
    ELSE SessionAfter(CASE Head(stmts) = "showplan_on" -> TRUE
                        [] Head(stmts) = "showplan_off" -> FALSE
                        [] OTHER -> on,
                      Tail(stmts))

\* the pool of a new engine opens its own session
PooledSession(eng) == IF eng = engine THEN showplan ELSE FALSE

\* the database holds no more than MaxRows rows
Fits(tabs) == TotalRows(tabs, DOMAIN tabs) <= MaxRows

(***************************************************************************)
(* main (server.py 682-703): connect, then serve.  An exception of connect *)
(* leaves main and ends the process.                                       *)
(***************************************************************************)
Main ==
    /\ proc = "starting"
    /\ last = Idle
    /\ \E fault \in {"none", "create_engine", "probe"} :
          LET c == connect(engine, created, fault)
          IN  /\ proc' = IF c.raised THEN "exited" ELSE "serving"
              /\ engine' = c.engine
              /\ created' = c.created
              /\ showplan' = SessionAfter(PooledSession(c.engine), c.stmts)
              /\ held' = held + c.held
              /\ last' = [call |-> "main", raced |-> FALSE, made |-> c.created - created, tool |-> "",
                          arguments |-> NullArguments, fault |-> fault,
                          raised |-> c.raised, err |-> c.err, result |-> [none |-> TRUE],
                          response |-> [propagated |-> c.raised, content |-> <<>>],
                          stmts |-> c.stmts, executed |-> None]
    /\ UNCHANGED <<tables, racing>>

\* connect called on an object that main does not own
\* (tests/test_server.py 46-68)
Connect ==
    /\ proc = "direct"
    /\ last = Idle
    /\ racing = 0
    /\ created < MaxEngines
    /\ \E fault \in {"none", "create_engine", "probe"} :
          LET c == connect(engine, created, fault)
          IN  /\ engine' = c.engine
              /\ created' = c.created
              /\ showplan' = SessionAfter(PooledSession(c.engine), c.stmts)
              /\ held' = held + c.held
              /\ last' = [call |-> "connect", raced |-> FALSE, made |-> c.created - created, tool |-> "",
                          arguments |-> NullArguments, fault |-> fault,
                          raised |-> c.raised, err |-> c.err, result |-> [none |-> TRUE],
                          response |-> [propagated |-> c.raised, content |-> <<>>],
                          stmts |-> c.stmts, executed |-> None]
    /\ UNCHANGED <<proc, tables, racing>>

\* one tool invocation, from the request to the response; an exception
\* that left the handler would leave server.run and main with it
Invoke(name, arguments, stamp, fault) ==
    /\ proc \in {"serving", "direct"}
    /\ last = Idle
    /\ \E h \in {handle_call_tool(name, arguments, stamp, fault)} :
          /\ h.out.created <= MaxEngines
          /\ Fits(h.out.tables)
          /\ engine' = h.out.engine
          /\ created' = h.out.created
          /\ tables' = h.out.tables
          /\ showplan' = SessionAfter(PooledSession(h.out.engine), h.out.stmts)
          /\ held' = held + h.out.held
          /\ racing' = IF racing > 0 THEN racing - 1 ELSE 0
          /\ last' = [call |-> "tool", raced |-> racing > 0, made |-> h.out.created - created, tool |-> name,
                      arguments |-> arguments, fault |-> fault,
                      raised |-> h.out.raised, err |-> h.out.err,
                      result |-> h.out.result, response |-> h.response,
                      stmts |-> h.out.stmts, executed |-> h.out.executed]
          /\ proc' = IF h.response.propagated /\ proc = "serving" THEN "exited" ELSE proc

NoStamp == <<>>

\* Each tool is invoked with every argument map of its list when nothing
\* fails, and with the first map of the list under every fault.
Paired(fault, arguments, first) == fault = "none" \/ arguments = first

ExecuteQueryArgs ==
    {Given([query |-> q, limit |-> l]) : q \in Queries, l \in Limits}
        \cup {Given([query |-> q]) : q \in Queries}
        \cup {Given([limit |-> 1]), NullArguments}

CallExecuteQuery ==
    \E arguments \in ExecuteQueryArgs, fault \in FaultsNow :
        /\ Paired(fault, arguments, Given([query |-> SelectAll, limit |-> 1]))
        /\ Invoke("execute_query", arguments, NoStamp, fault)

GetSchemaArgs ==
    {Given([table_name |-> t, include_columns |-> ic, include_indexes |-> ~ic]) :
        t \in TableArgs, ic \in BOOLEAN}
        \cup {Given([table_name |-> t]) : t \in TableArgs}
        \cup {NullArguments}

CallGetSchema ==
    \E arguments \in GetSchemaArgs, fault \in FaultsNow :
        /\ Paired(fault, arguments, Given([table_name |-> Ghost]))
        /\ Invoke("get_schema", arguments, NoStamp, fault)

GetTableInfoArgs ==
    {Given([table_name |-> t, sample_rows |-> 1]) : t \in TableArgs}
        \cup {Given([table_name |-> t]) : t \in TableArgs}
        \cup {Given([sample_rows |-> 1])}

CallGetTableInfo ==
    \E arguments \in GetTableInfoArgs, fault \in FaultsNow :
        /\ Paired(fault, arguments, Given([table_name |-> Orders]))
        /\ Invoke("get_table_info", arguments, NoStamp, fault)

ExplainQueryArgs ==
    {Given([query |-> q]) : q \in {SelectAll, DeleteAll, SelectGhost}} \cup {NullArguments}

CallExplainQuery ==
    \E arguments \in ExplainQueryArgs, fault \in FaultsNow :
        /\ Paired(fault, arguments, Given([query |-> SelectAll]))
        /\ Invoke("explain_query", arguments, NoStamp, fault)

CallCheckConnection ==
    \E fault \in FaultsNow : Invoke("check_connection", NullArguments, NoStamp, fault)

GetTableStatsArgs == {Given([table_name |-> t]) : t \in TableArgs} \cup {Given(<<>>)}

CallGetTableStats ==
    \E arguments \in GetTableStatsArgs, fault \in FaultsNow :
        /\ Paired(fault, arguments, Given(<<>>))
        /\ Invoke("get_table_stats", arguments, NoStamp, fault)

SearchTablesArgs ==
    {Given([search_term |-> term, search_type |-> type]) :
        term \in SearchTerms, type \in {"table", "column", "all"}}
        \cup {Given([search_term |-> term]) : term \in SearchTerms}
        \cup {Given([search_type |-> "table"])}

CallSearchTables ==
    \E arguments \in SearchTablesArgs, fault \in FaultsNow :
        /\ Paired(fault, arguments, Given([search_term |-> <<"i">>]))
        /\ Invoke("search_tables", arguments, NoStamp, fault)

BackupTableArgs ==
    {Given([table_name |-> t]) : t \in {Orders, Ghost}}
        \cup {Given([table_name |-> t, backup_name |-> b]) : t \in {Orders, Ghost},
                                                             b \in {Orders, <<>>}}
        \cup {Given([backup_name |-> Orders])}

CallBackupTable ==
    \E arguments \in BackupTableArgs, stamp \in Stamps, fault \in FaultsNow :
        /\ Paired(fault, arguments, Given([table_name |-> Orders]))
        /\ Invoke("backup_table", arguments, stamp, fault)

InsertDataArgs ==
    {Given([table_name |-> Orders, data |-> d, on_conflict |-> oc]) :
        d \in DataArgs, oc \in ConflictArgs}
        \cup {Given([table_name |-> Orders, data |-> d]) : d \in DataArgs}
        \cup {Given([table_name |-> Orders]), Given([data |-> <<1>>])}

CallInsertData ==
    \E arguments \in InsertDataArgs, fault \in FaultsNow :
        /\ fault = "none" \/ arguments \in {Given([table_name |-> Orders, data |-> d]) :
                                               d \in {<<>>, <<1>>}}
        /\ Invoke("insert_data", arguments, NoStamp, fault)

UnknownToolArgs ==
    {NullArguments, Given(<<>>), Given([query |-> SelectAll]),
     Given([table_name |-> Orders, data |-> <<1>>])}

CallUnknownTool ==
    \E name \in UnknownNames, arguments \in UnknownToolArgs, fault \in FaultsNow :
        /\ Paired(fault, arguments, NullArguments)
        /\ Invoke(name, arguments, NoStamp, fault)

\* the discovery call
ListTools ==
    /\ proc \in {"serving", "direct"}
    /\ last = Idle
    /\ last' = [Idle EXCEPT !.call = "list", !.result = [tools |-> handle_list_tools]]
    /\ UNCHANGED <<proc, engine, created, tables, showplan, held, racing>>

\* the response reaches the caller; the server waits for the next request
Deliver ==
    /\ last /= Idle
    /\ last' = Idle
    /\ UNCHANGED <<proc, engine, created, tables, showplan, held, racing>>

\* pool_recycle=3600 (server.py 294): a pooled connection older than an
\* hour is closed and replaced by a new one at its next checkout
Recycle ==
    /\ last = Idle
    /\ engine.id /= 0
    /\ showplan
    /\ showplan' = FALSE
    /\ UNCHANGED <<proc, engine, created, tables, last, held, racing>>

\* two or more requests arrive together while no handle exists:
\* server.run starts a task for each of them
Start ==
    /\ proc \in {"serving", "direct"}
    /\ last = Idle
    /\ engine.id = 0
    /\ racing = 0
    /\ \E n \in 2..MaxTasks : racing' = n
    /\ UNCHANGED <<proc, engine, created, tables, last, showplan, held>>

Next ==
    \/ Deliver
    \/ Main
    \/ Connect
    \/ CallExecuteQuery
    \/ CallGetSchema
    \/ CallGetTableInfo
    \/ CallExplainQuery
    \/ CallCheckConnection
    \/ CallGetTableStats
    \/ CallSearchTables
    \/ CallBackupTable
    \/ CallInsertData
    \/ CallUnknownTool
    \/ ListTools
    \/ Recycle
    \/ Start

Spec == Init /\ [][Next]_vars

\* server.run answers every request it has read: a response on its way is
\* delivered
LiveSpec == Spec /\ WF_vars(Deliver)


(***************************************************************************)
(* Properties.                                                             *)
(***************************************************************************)
ToolCall(name) == last.call = "tool" /\ last.tool = name

Args == last.arguments.map

Ran(tag) == \E i \in 1..Len(last.stmts) : last.stmts[i] = tag

OneText ==
    /\ ~last.response.propagated
    /\ Len(last.response.content) = 1
    /\ last.response.content[1].type = "text"

Text == last.response.content[1].text

IsErrorText == "prefix" \in DOMAIN Text /\ Text.prefix = "Error: "

\* C1: an invocation of a name outside the catalog returns one error text
\* that contains the name as given; no exception leaves the handler.
C1_UnknownToolNamed ==
    (last.call = "tool" /\ last.tool \notin ToolNames) =>
        /\ OneText
        /\ IsErrorText
        /\ "tool" \in DOMAIN Text.str
        /\ Text.str.tool = last.tool

C1_Witness ==
    /\ ToolCall("drop_table")
    /\ last.arguments.null
    /\ OneText
    /\ IsErrorText

\* C2: every invocation returns exactly one text payload, the JSON encoding
\* of the operation's result map or a string that begins with "Error: ";
\* an error raised by the operation, by connect or by the argument lookup
\* stays inside the handler.
C2_OneTextPayload ==
    last.call = "tool" =>
        /\ OneText
        /\ IF last.raised THEN IsErrorText
           ELSE "json" \in DOMAIN Text /\ Text = JsonDumps(last.result)

C2_Witness ==
    /\ ToolCall("insert_data")
    /\ last.raised
    /\ last.err = KeyError("data")
    /\ OneText
    /\ IsErrorText


Limit == Get(Args, "limit", 1000)

QueryCall == ToolCall("execute_query") /\ "query" \in DOMAIN Args

\* a read without a limiting clause, in the words of the specification
ReadWithoutLimit(query) ==
    /\ StartsWith(Upper(Strip(query)), kwSELECT)
    /\ ~Contains(Upper(query), kwTOP)
    /\ ~Contains(Upper(query), kwOFFSET)

\* query with " TOP <limit>" placed right after the SELECT that begins it
TopAfterLeadingSelect(query, limit) ==
    LET at == Len(query) - Len(LStrip(query)) + Len(kwSELECT)
    IN  SubSeq(query, 1, at) \o Blank \o kwTOP \o Blank \o StrOfNat(limit)
            \o SubSeq(query, at + 1, Len(query))

\* C3: for a positive limit, the statement execute_query runs is the query
\* with TOP <limit> after its leading SELECT exactly when the query begins
\* with SELECT in any letter case and holds neither TOP nor OFFSET;
\* otherwise it is the query as given.
C3_RewriteExactlyWhen ==
    (QueryCall /\ Limit > 0 /\ last.executed /= None) =>
        last.executed[1] = IF ReadWithoutLimit(Args.query)
                           THEN TopAfterLeadingSelect(Args.query, Limit)
                           ELSE Args.query

\* C4: for a positive limit, a successful read without a limiting clause
\* returns at most limit rows, and row_count is the number of row mappings
\* in data.
C4_RowCountWithinLimit ==
    (QueryCall /\ Limit > 0 /\ ~last.raised /\ "row_count" \in DOMAIN last.result
        /\ ReadWithoutLimit(Args.query)) =>
        /\ last.result.row_count <= Limit
        /\ last.result.row_count = Len(last.result.data)

\* C5: the limit check and rewrite, applied to the statement they produced,
\* return that statement unchanged.
C5_RewriteIdempotent ==
    (QueryCall /\ last.executed /= None) =>
        LimitRewrite(last.executed[1], Limit) = last.executed[1]

C5_Witness ==
    /\ QueryCall
    /\ last.executed /= None
    /\ last.executed[1] /= Args.query
    /\ Contains(last.executed[1], kwTOP)

\* C6 as stated: whatever fails during execute_query, the call returns a
\* map with success = false, error and query, and raises nothing.
C6_NeverRaises ==
    QueryCall =>
        /\ ~last.raised
        /\ last.fault /= "none" =>
              /\ DOMAIN last.result = {"success", "error", "query"}
              /\ last.result.success = FALSE

\* C6 amended: execute_query raises only what its connect raised; a failure
\* to open a session on the handle or to execute the statement comes back
\* as the map {success: false, error, query}.
C6_FailureReturnedUnlessConnect ==
    QueryCall =>
        /\ last.raised => (last.fault \in {"create_engine", "probe"} /\ last.executed = None)
        /\ (~last.raised /\ (\/ last.fault \in {"acquire", "execute"}
                             \/ (last.executed /= None
                                   /\ ~Execute(last.executed[1], tables).ok))) =>
              /\ DOMAIN last.result = {"success", "error", "query"}
              /\ last.result.success = FALSE

C6_Witness ==
    /\ QueryCall
    /\ last.fault = "execute"
    /\ ~last.raised
    /\ last.result.success = FALSE
    /\ last.result.query = last.executed[1]

\* C7: on a handle that a successful connect has set, an invocation keeps
\* the handle, constructs no engine and runs no probe; and every connect
\* that succeeds constructs exactly one engine.
C7_HandleReused ==
    [][/\ (engine.id /= 0 /\ engine.probed /\ last'.call = "tool") =>
            /\ engine' = engine
            /\ created' = created
            /\ last'.made = 0
            /\ \A i \in 1..Len(last'.stmts) : last'.stmts[i] /= "probe"
       /\ (engine' /= engine /\ engine'.probed) => created' = created + 1]_vars

C7_Witness ==
    /\ last.call = "tool"
    /\ last.tool \in ToolNames
    /\ engine.probed
    /\ created = 1
    /\ last.made = 0
    /\ last.stmts /= <<>>
    /\ ~Ran("probe")

\* C8: insert_data with an empty data sequence returns {error: "No data
\* provided"} and contacts nothing: no engine, no probe, no write.
C8_EmptyInsertNoContact ==
    (ToolCall("insert_data") /\ {"table_name", "data"} \subseteq DOMAIN Args
        /\ Args.data = <<>>) =>
        /\ ~last.raised
        /\ last.result = [error |-> NoData]
        /\ last.made = 0
        /\ last.stmts = <<>>

InsertDone ==
    /\ last'.call = "tool"
    /\ last'.tool = "insert_data"
    /\ ~last'.raised
    /\ "success" \in DOMAIN last'.result

\* C9: a successful insert_data of non-empty data with on_conflict =
\* "replace" leaves the table holding exactly the supplied rows; with
\* "ignore", given or by default, it leaves the prior rows followed by the
\* supplied rows.
C9_ConflictModes ==
    [][InsertDone =>
          LET m == last'.arguments.map
              on_conflict == Get(m, "on_conflict", "ignore")
          IN  /\ m.data /= <<>>
              /\ on_conflict = "replace" => tables'[m.table_name] = m.data
              /\ on_conflict = "ignore" =>
                    /\ m.table_name \in DOMAIN tables
                    /\ tables'[m.table_name] = tables[m.table_name] \o m.data]_vars

C9_Witness ==
    /\ ToolCall("insert_data")
    /\ ~last.raised
    /\ "success" \in DOMAIN last.result
    /\ "on_conflict" \notin DOMAIN Args
    /\ Len(tables[Args.table_name]) > Len(Args.data)

SchemaCall ==
    /\ last.call = "tool"
    /\ last.tool \in {"get_schema", "get_table_info"}
    /\ "table_name" \in DOMAIN Args
    /\ ~last.raised
    /\ last.fault = "none"

\* C10 as stated: a given name that no table bears gets exactly the
\* not-found map, from get_schema and from get_table_info, and
\* get_table_info runs neither the count nor the sample statement.
C10_GivenAbsentName ==
    (SchemaCall /\ Args.table_name \notin DOMAIN tables) =>
        /\ last.result = [error |-> MissingTable(Args.table_name)]
        /\ ~Ran("count")
        /\ ~Ran("sample")

\* C10 amended: the same for every non-empty name that no table bears, when
\* the connection and the introspection succeed.
C10_NonEmptyAbsentName ==
    (SchemaCall /\ Args.table_name /= <<>> /\ Args.table_name \notin DOMAIN tables) =>
        /\ last.result = [error |-> MissingTable(Args.table_name)]
        /\ ~Ran("count")
        /\ ~Ran("sample")

C10_Witness ==
    /\ ToolCall("get_table_info")
    /\ "table_name" \in DOMAIN Args
    /\ Args.table_name = Ghost
    /\ last.result = [error |-> MissingTable(Ghost)]
    /\ last.stmts = <<"inspect">>


\* the names of the catalog a discovery call returned
Listed(tools) == {tools[i].name : i \in 1..Len(tools)}

\* the handler's chain has a branch for the name
Routed(name) == Dispatch(name, <<>>, NoStamp, "none").err /= UnknownTool(name)

\* C11: the discovery call lists nine distinct names and the handler's
\* chain has a branch for each of them; an invoked name reaches a branch of
\* the chain exactly when the catalog lists it.
C11_CatalogIsRoutingTable ==
    /\ last.call = "list" =>
          /\ Len(last.result.tools) = 9
          /\ Cardinality(Listed(last.result.tools)) = 9
          /\ \A name \in Listed(last.result.tools) : Routed(name)
    /\ last.call = "tool" =>
          (last.tool \in Listed(handle_list_tools)
              <=> ~(last.raised /\ last.err = UnknownTool(last.tool)))

C11_Witness ==
    /\ last.call = "list"
    /\ Cardinality(Listed(last.result.tools)) = 9
    /\ proc = "serving"


\* C12: the text of every result that reaches the caller is the result
\* with each of its values normalized by the mapping of json_serializer: a
\* temporal value as its ISO-8601 string, a Decimal as a floating-point
\* number, any other non-primitive as its string, primitives unchanged.
C12_NormalizedBySerializer ==
    (last.call = "tool" /\ ~last.raised) => Text = Dumps(last.result, "json_serializer")


\* the boolean a result map reports its outcome with, if it has one
Indicators(result) == DOMAIN result \cap {"success", "connected"}

\* C13: the result map of every operation, on its success path and on each
\* failure path, has a success indicator (the key success, or connected
\* for check_connection); a map whose indicator is false has the key error
\* as well.
C13_SuccessIndicator ==
    (last.call = "tool" /\ last.tool \in ToolNames /\ ~last.raised) =>
        /\ Indicators(last.result) /= {}
        /\ \A k \in Indicators(last.result) :
              last.result[k] = FALSE => "error" \in DOMAIN last.result


\* C14: a startup whose connect fails ends the process, and an ended
\* process serves nothing; a process that serves stays serving whatever an
\* invocation does, accepts an invocation whenever it waits, and comes back
\* to waiting after every invocation.
C14_StartupFatalToolsNever ==
    /\ [][/\ (last'.call = "main" /\ last'.fault /= "none") => proc' = "exited"
          /\ proc \in {"starting", "exited"} => last'.call \notin {"tool", "list"}
          /\ proc = "exited" => proc' = "exited"
          /\ proc = "serving" => proc' = "serving"]_vars
    /\ [](proc = "serving" /\ last = Idle =>
             ENABLED Invoke("check_connection", NullArguments, NoStamp, "none"))
    /\ (proc = "serving" /\ last.call = "tool") ~> (proc = "serving" /\ last = Idle)

C14_Witness ==
    /\ proc = "serving"
    /\ last.call = "tool"
    /\ last.raised
    /\ OneText
    /\ IsErrorText


\* C15: a call of explain_query that switched SHOWPLAN_ALL on has switched
\* it off again when it returns, and no session is back in the pool with
\* the setting on.
C15_PlanOnlySwitchedOff ==
    /\ (ToolCall("explain_query") /\ Ran("showplan_on")) => Ran("showplan_off")
    /\ ~showplan

\* C16: when a call has returned, by a normal return, an early return or
\* after an error of a statement, no connection it took from the pool is
\* still checked out.
C16_ConnectionsReleased == held = 0

C16_Witness ==
    /\ ToolCall("backup_table")
    /\ Args.table_name = Ghost
    /\ Ran("select_into")
    /\ "error" \in DOMAIN last.result
    /\ held = 0


\* the call ran statements of its own, after the probe of its connect
OwnStatements == \E i \in 1..Len(last.stmts) : last.stmts[i] /= "probe"

\* C17: of the invocations started together while no handle existed, each
\* one that runs statements runs them on a handle that was constructed and
\* probed, and when all of them have run the handle in place is one that a
\* completed connect produced.
C17_FirstUseRaceTolerated ==
    /\ (last.call = "tool" /\ last.raced /\ OwnStatements) => engine.probed
    /\ (last.call = "tool" /\ last.raced /\ racing = 0 /\ engine.id /= 0) => engine.probed


\* C18: the handle is set only by a connect whose probe succeeded: after a
\* connect that failed at create_engine or at the probe the handle is
\* unset, so that the next operation connects again.
C18_HandleOnlyAfterProbe ==
    proc /= "exited" =>
        /\ engine.id /= 0 => engine.probed
        /\ (last.call \in {"connect", "tool"}
               /\ last.fault \in {"create_engine", "probe"}) => engine.id = 0


\* C19: a successful insert_data whose on_conflict is anything but
\* "replace" keeps the rows the table held: they are still there, in
\* their order, before the rows it added.
C19_DropOnlyOnReplace ==
    [][(InsertDone /\ Get(last'.arguments.map, "on_conflict", "ignore") /= "replace") =>
          LET name == last'.arguments.map.table_name
          IN  name \in DOMAIN tables =>
                 /\ Len(tables'[name]) >= Len(tables[name])
                 /\ SubSeq(tables'[name], 1, Len(tables[name])) = tables[name]]_vars

=============================================================================
